---- MODULE Spec2Model ----
(***************************************************************************)
(* tap-tiktok, src/tap_tiktok/client.py: the TikTokStream base class and   *)
(* its TikTokReportsStream variant.                                        *)
(*                                                                         *)
(* One behaviour of the model is one use of a stream object: either one    *)
(* direct call of one of its methods, or one consumption of get_records.   *)
(* Python values are tagged records, character strings are sequences of    *)
(* one-character strings, so that str(), strip() and truthiness are        *)
(* computed and not assumed.                                               *)
(***************************************************************************)
EXTENDS Integers, Sequences, FiniteSets, TLC

\* ---------------------------------------------------------------- bounds
\* Longest `advertiser_ids` list that is configured.
MaxIds == 2
\* Largest page number / page count the server reports.
MaxPage == 2
\* Rows the server puts in each page it serves.
RowsPerPage == 1
\* Requests one run sends to an API that may answer anything.
MaxReq == 4

\* ---------------------------------------------------------- Python values
PyNone == [t |-> "none"]
PyInt(n) == [t |-> "int", v |-> n]
PyStr(s) == [t |-> "str", v |-> s]
PyBool(b) == [t |-> "bool", v |-> b]
PyList(s) == [t |-> "list", v |-> s]
PyDict(f) == [t |-> "dict", v |-> f]

\* The empty mapping {}.
EmptyMap == [k \in {} |-> PyNone]

\* bool(x): Python truthiness.
Truthy(x) ==
    CASE x.t = "none" -> FALSE
      [] x.t = "bool" -> x.v
      [] x.t = "int"  -> x.v # 0
      [] x.t = "str"  -> Len(x.v) > 0
      [] x.t = "list" -> Len(x.v) > 0
      [] x.t = "dict" -> DOMAIN x.v # {}

Digit(d) == <<"0", "1", "2", "3", "4", "5", "6", "7", "8", "9">>[d + 1]

RECURSIVE NatChars(_)
NatChars(n) == IF n < 10 THEN <<Digit(n)>> ELSE NatChars(n \div 10) \o <<Digit(n % 10)>>

\* str(x) for the values a configuration holds: the characters of the text.
str(x) ==
    CASE x.t = "str"  -> x.v
      [] x.t = "int"  -> IF x.v < 0 THEN <<"-">> \o NatChars(-x.v) ELSE NatChars(x.v)
      [] x.t = "none" -> <<"N", "o", "n", "e">>
      [] x.t = "bool" -> IF x.v THEN <<"T", "r", "u", "e">> ELSE <<"F", "a", "l", "s", "e">>

IsSpace(c) == c \in {" ", "\t", "\n"}

RECURSIVE lstrip(_)
lstrip(s) == IF s # <<>> /\ IsSpace(Head(s)) THEN lstrip(Tail(s)) ELSE s

RECURSIVE rstrip(_)
rstrip(s) ==
    IF s # <<>> /\ IsSpace(s[Len(s)]) THEN rstrip(SubSeq(s, 1, Len(s) - 1)) ELSE s

\* s.strip(): leading and trailing whitespace removed.
strip(s) == rstrip(lstrip(s))

\* dict.get(key): the value, or None when the key is absent.
DictGet(d, key) == IF key \in DOMAIN d THEN d[key] ELSE PyNone

\* ------------------------------------------------- _configured_advertiser_ids
\* A comprehension that tests `str(x)` and not `str(x).strip()`.
RECURSIVE NonBlankStrsNoStrip(_)
NonBlankStrsNoStrip(xs) ==
    IF xs = <<>> THEN <<>>
    ELSE LET x == Head(xs)
         IN  (IF x # PyNone /\ str(x) # <<>> THEN <<str(x)>> ELSE <<>>)
             \o NonBlankStrsNoStrip(Tail(xs))

\* The list comprehension of client.py:22.
RECURSIVE NonBlankStrs(_)
NonBlankStrs(xs) ==
    IF xs = <<>> THEN <<>>
    ELSE LET x == Head(xs)
         IN  (IF x # PyNone /\ strip(str(x)) # <<>> THEN <<str(x)>> ELSE <<>>)
             \o NonBlankStrs(Tail(xs))

\* Outcome of _configured_advertiser_ids: [ok |-> TRUE, val |-> list of
\* strings] on return, [ok |-> FALSE, err |-> "RuntimeError"] on raise.
ConfiguredAdvertiserIds(cfg) ==
    LET advertiser_ids == DictGet(cfg, "advertiser_ids")
        advertiser_id == DictGet(cfg, "advertiser_id")
    IN  IF advertiser_ids.t = "list" /\ Truthy(advertiser_ids)
        THEN [ok |-> TRUE, val |-> NonBlankStrs(advertiser_ids.v)]
        ELSE IF advertiser_id # PyNone /\ strip(str(advertiser_id)) # <<>>
             THEN [ok |-> TRUE, val |-> <<str(advertiser_id)>>]
             ELSE [ok |-> FALSE, err |-> "RuntimeError"]

\* ----------------------------------------------------- _resolve_advertiser_id
\* `context and context.get("advertiser_id")`, the condition of client.py:40.
ContextHasAdvertiserId(context) ==
    /\ Truthy(context)
    /\ Truthy(DictGet(context.v, "advertiser_id"))

\* Outcome of _resolve_advertiser_id: the context's id as a string, else the
\* first configured id; indexing an empty list raises IndexError.
ResolveAdvertiserId(cfg, context) ==
    IF ContextHasAdvertiserId(context)
    THEN [ok |-> TRUE, val |-> str(context.v["advertiser_id"])]
    ELSE LET ids == ConfiguredAdvertiserIds(cfg)
         IN  IF ~ids.ok THEN ids
             ELSE IF ids.val = <<>> THEN [ok |-> FALSE, err |-> "IndexError"]
             ELSE [ok |-> TRUE, val |-> ids.val[1]]

\* ------------------------------------------------------------ get_url_params
\* json.dumps of a one-key object whose value is a string: the JSON text.
JsonDumps(key, val) == "{\"" \o key \o "\": \"" \o val \o "\"}"

\* A filter whose two statuses are exchanged.
FilteringInverted(cfg) ==
    JsonDumps("primary_status",
              IF Truthy(DictGet(cfg, "include_deleted"))
              THEN "STATUS_NOT_DELETE" ELSE "STATUS_ALL")

\* The `filtering` parameter of client.py:72-74.
Filtering(cfg) ==
    JsonDumps("primary_status",
              IF Truthy(DictGet(cfg, "include_deleted"))
              THEN "STATUS_ALL" ELSE "STATUS_NOT_DELETE")

\* The `page_size` parameter of client.py:75.
PageSize == 10

\* A get_url_params that never passes the token on.
GetUrlParamsNoPage(cfg, context, next_page_token) ==
    LET adv == ResolveAdvertiserId(cfg, context)
    IN  IF ~adv.ok THEN adv
        ELSE [ok |-> TRUE,
              val |-> [advertiser_id |-> adv.val,
                       filtering |-> Filtering(cfg),
                       page_size |-> PageSize]]

\* Outcome of get_url_params: the parameter mapping, `page` present only for
\* a truthy next_page_token.
GetUrlParams(cfg, context, next_page_token) ==
    LET adv == ResolveAdvertiserId(cfg, context)
        fixed == [advertiser_id |-> adv.val,
                  filtering |-> Filtering(cfg),
                  page_size |-> PageSize]
    IN  IF ~adv.ok THEN adv
        ELSE [ok |-> TRUE,
              val |-> IF Truthy(next_page_token)
                      THEN [advertiser_id |-> adv.val,
                            page |-> next_page_token,
                            filtering |-> Filtering(cfg),
                            page_size |-> PageSize]
                      ELSE fixed]

\* -------------------------------------------------------- get_next_page_token
\* extract_jsonpath for a path of plain member names: the matches, in order.
RECURSIVE ExtractJsonpath(_, _)
ExtractJsonpath(path, json) ==
    IF path = <<>> THEN <<json>>
    ELSE IF json.t = "dict" /\ Head(path) \in DOMAIN json.v
         THEN ExtractJsonpath(Tail(path), json.v[Head(path)])
         ELSE <<>>

\* next(iter(matches), None)
FirstMatch(matches) == IF matches = <<>> THEN PyNone ELSE matches[1]

\* _get_page_info(json_path, json)
GetPageInfo(json_path, json) == FirstMatch(ExtractJsonpath(json_path, json))

\* `a or b`
PyOr(a, b) == IF Truthy(a) THEN a ELSE b

PagePath == <<"data", "page_info", "page">>
TotalPagePath == <<"data", "page_info", "total_page">>

\* A continuation test that is off by one: `<=` for `<`.
NextPageOfInclusive(current_page, total_pages) ==
    IF current_page.t # "int" \/ total_pages.t # "int"
    THEN [ok |-> FALSE, err |-> "TypeError"]
    ELSE IF current_page.v <= total_pages.v
         THEN [ok |-> TRUE, val |-> PyInt(current_page.v + 1)]
         ELSE [ok |-> TRUE, val |-> PyNone]

\* `if current_page < total_pages: return current_page + 1; return None`;
\* `<` between values that are not both numbers raises TypeError.
NextPageOf(current_page, total_pages) ==
    IF current_page.t # "int" \/ total_pages.t # "int"
    THEN [ok |-> FALSE, err |-> "TypeError"]
    ELSE IF current_page.v < total_pages.v
         THEN [ok |-> TRUE, val |-> PyInt(current_page.v + 1)]
         ELSE [ok |-> TRUE, val |-> PyNone]

\* A base get_next_page_token without the `or 0` defaults.
BaseGetNextPageTokenNoDefault(json, previous_token) ==
    NextPageOf(GetPageInfo(PagePath, json), GetPageInfo(TotalPagePath, json))

\* TikTokStream.get_next_page_token: absent values are taken as 0.
BaseGetNextPageToken(json, previous_token) ==
    NextPageOf(PyOr(GetPageInfo(PagePath, json), PyInt(0)),
               PyOr(GetPageInfo(TotalPagePath, json), PyInt(0)))

\* A report get_next_page_token that defaults absent values to 0.
ReportGetNextPageTokenDefaulting(json, previous_token) ==
    NextPageOf(PyOr(GetPageInfo(PagePath, json), PyInt(0)),
               PyOr(GetPageInfo(TotalPagePath, json), PyInt(0)))

\* TikTokReportsStream.get_next_page_token: the raw extracted values.
ReportGetNextPageToken(json, previous_token) ==
    NextPageOf(GetPageInfo(PagePath, json), GetPageInfo(TotalPagePath, json))

GetNextPageToken(cls, json, previous_token) ==
    IF cls = "TikTokReportsStream"
    THEN ReportGetNextPageToken(json, previous_token)
    ELSE BaseGetNextPageToken(json, previous_token)

\* --------------------------------------------------------------- post_process
\* A merge in which the first mapping wins: {**b, **a}.
DictMergeFirstWins(a, b) ==
    [k \in DOMAIN a \cup DOMAIN b |-> IF k \in DOMAIN a THEN a[k] ELSE b[k]]

\* {**a, **b}
DictMerge(a, b) ==
    [k \in DOMAIN a \cup DOMAIN b |-> IF k \in DOMAIN b THEN b[k] ELSE a[k]]

\* TikTokReportsStream.post_process; a row without either key raises KeyError.
ReportPostProcess(row) ==
    IF "dimensions" \notin DOMAIN row.v \/ "metrics" \notin DOMAIN row.v
    THEN [ok |-> FALSE, err |-> "KeyError"]
    ELSE [ok |-> TRUE,
          val |-> PyDict(DictMerge(row.v["dimensions"].v, row.v["metrics"].v))]

\* post_process of the stream class; the base class keeps the row as it is.
PostProcess(cls, row) ==
    IF cls = "TikTokReportsStream" THEN ReportPostProcess(row)
    ELSE [ok |-> TRUE, val |-> row]

\* ---------------------------------------------------------------- the state
VARIABLES
    cls,              \* the stream class: "TikTokStream" or "TikTokReportsStream"
    config,           \* self.config; an unset key holds None
    context,          \* the mapping object the caller passes to get_records
    server,           \* how the API reports its pages
    pc,               \* where the use of the stream stands
    call,             \* the direct method call made, with its outcome
    base_ctx,         \* get_records: base_ctx
    ids,              \* get_records: the list the for loop iterates
    ti,               \* get_records: how many of `ids` the loop has taken
    local_ctx,        \* get_records: local_ctx
    next_page_token,  \* page loop: next_page_token
    resp,             \* page loop: the JSON body of the response being read
    rows,             \* page loop: rows of `resp` not yet yielded
    trace,            \* requests sent and records yielded, in order
    err               \* the exception that ended the use, if any

vars == <<cls, config, context, server, pc, call, base_ctx, ids, ti, local_ctx,
          next_page_token, resp, rows, trace, err>>

runVars == <<base_ctx, ids, ti, local_ctx, next_page_token, resp, rows, trace>>

\* Sequences over S of length at most n.
SeqUpTo(S, n) == UNION {[1..k -> S] : k \in 0..n}

\* Elements of a configured `advertiser_ids` list: null, blank, text, number.
IdValues == {PyNone, PyStr(<<" ">>), PyStr(<<"A">>), PyInt(7)}

\* `advertiser_ids`: unset, a scalar given by mistake, or a list.
AdvertiserIdsValues ==
    {PyNone, PyStr(<<"A">>)} \cup {PyList(s) : s \in SeqUpTo(IdValues, MaxIds)}

\* `advertiser_id`: unset, blank, text, number.
AdvertiserIdValues == {PyNone, PyStr(<<" ">>), PyStr(<<"B">>), PyInt(0)}

IncludeDeletedValues == {PyNone, PyBool(FALSE), PyBool(TRUE)}

\* The configurations the resolver is called with.
Configs ==
    [advertiser_ids : AdvertiserIdsValues,
     advertiser_id : AdvertiserIdValues,
     include_deleted : IncludeDeletedValues]

\* The configurations get_records is run with.
RunConfigs ==
    [advertiser_ids : AdvertiserIdsValues,
     advertiser_id : {PyNone, PyStr(<<"B">>)},
     include_deleted : IncludeDeletedValues]

\* The configurations the page loop is run with: they differ in the
\* advertisers they name.
LoopConfigs ==
    [advertiser_ids : AdvertiserIdsValues,
     advertiser_id : {PyNone, PyStr(<<"B">>)},
     include_deleted : {PyNone}]

\* Configurations that name advertisers by a list of texts and numbers, or
\* by `advertiser_id` when the list is empty.
NamingConfigs ==
    [advertiser_ids : {PyList(s) : s \in SeqUpTo({PyStr(<<"A">>), PyInt(7)}, MaxIds)},
     advertiser_id : {PyStr(<<"B">>)},
     include_deleted : {PyNone}]

\* The configuration of the calls that read no configuration.
PlainConfig ==
    [advertiser_ids |-> PyNone, advertiser_id |-> PyStr(<<"B">>),
     include_deleted |-> PyNone]

\* Contexts a caller hands to get_records: none, empty, a parent's context
\* that names another advertiser.
CallerContexts ==
    {PyNone, PyDict(EmptyMap), PyDict([advertiser_id |-> PyStr(<<"B">>)])}

\* Contexts get_url_params is called with directly.
UrlContexts ==
    CallerContexts \cup
    {PyDict([advertiser_id |-> PyStr(<<>>)]),
     PyDict([advertiser_id |-> PyNone]),
     PyDict([advertiser_id |-> PyInt(0)]),
     PyDict([advertiser_id |-> PyInt(7)]),
     PyDict([parent_id |-> PyInt(7)])}

Classes == {"TikTokStream", "TikTokReportsStream"}

PageNumbers == {PyInt(n) : n \in 0..MaxPage}

\* The `page_info` objects a response may hold: each field present or not.
PageInfos ==
    {PyDict(EmptyMap)}
    \cup {PyDict([page |-> p]) : p \in PageNumbers}
    \cup {PyDict([total_page |-> n]) : n \in PageNumbers}
    \cup {PyDict([page |-> p, total_page |-> n]) : p \in PageNumbers, n \in PageNumbers}

\* The k-th row the API holds for an advertiser's page.
Row(adv, page, k) ==
    PyDict([dimensions |-> PyDict([advertiser_id |-> PyStr(adv), page |-> PyInt(page)]),
            metrics |-> PyDict([row |-> PyInt(k)])])

\* The rows of an advertiser's page.
RowList(adv, page) == PyList([k \in 1..RowsPerPage |-> Row(adv, page, k)])

\* Response bodies for a request: without `data`, without `page_info`, or
\* with one of PageInfos.
Bodies(adv, page) ==
    {PyDict(EmptyMap), PyDict([data |-> PyDict([list |-> RowList(adv, page)])])}
    \cup {PyDict([data |-> PyDict([page_info |-> pi, list |-> RowList(adv, page)])]) :
            pi \in PageInfos}

\* The body of an API that answers page p of an advertiser with N pages by
\* page_info {page: p, total_page: N}.
PagedBody(adv, page, total) ==
    PyDict([data |-> PyDict([page_info |-> PyDict([page |-> PyInt(page),
                                                    total_page |-> PyInt(total)]),
                             list |-> RowList(adv, page)])])

\* records_jsonpath "$.data.list[*]": the rows of a body.
ExtractRecords(json) ==
    LET m == ExtractJsonpath(<<"data", "list">>, json)
    IN  IF m = <<>> THEN <<>> ELSE IF m[1].t = "list" THEN m[1].v ELSE <<>>

NoCall == [fn |-> "none"]

InitWith(classes, configs, contexts, srv) ==
    /\ cls \in classes
    /\ config \in configs
    /\ context \in contexts
    /\ server = srv
    /\ pc = "idle"
    /\ call = NoCall
    /\ base_ctx = PyNone
    /\ ids = <<>>
    /\ ti = 0
    /\ local_ctx = PyNone
    /\ next_page_token = PyNone
    /\ resp = PyNone
    /\ rows = <<>>
    /\ trace = <<>>
    /\ err = "none"

\* ------------------------------------------------------- direct method calls
Called(rec) ==
    /\ pc = "idle"
    /\ pc' = "called"
    /\ call' = rec
    /\ UNCHANGED <<cls, config, context, server, runVars, err>>

Call_configured_advertiser_ids ==
    Called([fn |-> "_configured_advertiser_ids",
            out |-> ConfiguredAdvertiserIds(config)])

Tokens == {PyNone} \cup {PyInt(n) : n \in 0..MaxPage}

Call_get_url_params ==
    \E ctx \in UrlContexts, token \in Tokens :
        Called([fn |-> "get_url_params", ctx |-> ctx, token |-> token,
                out |-> GetUrlParams(config, ctx, token)])

Call_get_next_page_token ==
    \E body \in Bodies(<<"A">>, 1), prev \in Tokens :
        Called([fn |-> "get_next_page_token", json |-> body, prev |-> prev,
                out |-> GetNextPageToken(cls, body, prev)])

\* `dimensions` and `metrics` of the rows handed to post_process, over two
\* keys, so that a key can be in one, in both or in neither.
RowMaps ==
    {EmptyMap}
    \cup {[date |-> v] : v \in {PyInt(1), PyInt(2)}}
    \cup {[clicks |-> v] : v \in {PyInt(1), PyInt(2)}}
    \cup {[date |-> v, clicks |-> w] : v \in {PyInt(1)}, w \in {PyInt(1), PyInt(2)}}

PostProcessRows ==
    {PyDict([dimensions |-> PyDict(d), metrics |-> PyDict(m), extra |-> PyInt(9)]) :
        d \in RowMaps, m \in RowMaps}

Call_post_process ==
    /\ cls = "TikTokReportsStream"
    /\ \E row \in PostProcessRows :
        Called([fn |-> "post_process", row |-> row, out |-> ReportPostProcess(row)])

\* --------------------------------------------------------------- get_records
Raise(e) ==
    /\ pc' = "error"
    /\ err' = e

\* Requests already sent for the i-th advertiser.
ReqCount(i) ==
    Cardinality({n \in 1..Len(trace) : trace[n].kind = "request" /\ trace[n].i = i})

\* A local_ctx that keeps an advertiser_id the parent context brought:
\* local_ctx.setdefault("advertiser_id", advertiser_id).
LocalCtxKeepParent(base, advertiser_id) ==
    PyDict([k \in DOMAIN base.v \cup {"advertiser_id"} |->
              IF k \in DOMAIN base.v THEN base.v[k] ELSE PyStr(advertiser_id)])

\* dict(base_ctx) with local_ctx["advertiser_id"] = advertiser_id.
LocalCtx(base, advertiser_id) ==
    PyDict([k \in DOMAIN base.v \cup {"advertiser_id"} |->
              IF k = "advertiser_id" THEN PyStr(advertiser_id) ELSE base.v[k]])

\* First step of the generator: client.py:32 and the call of line 33.
GetRecordsStart ==
    /\ pc = "idle"
    /\ base_ctx' = (IF Truthy(context) THEN context ELSE PyDict(EmptyMap))
    /\ LET out == ConfiguredAdvertiserIds(config)
       IN  IF out.ok
           THEN /\ ids' = out.val
                /\ pc' = "for"
                /\ err' = err
           ELSE /\ ids' = ids
                /\ Raise(out.err)
    /\ UNCHANGED <<cls, config, context, server, call, ti, local_ctx,
                   next_page_token, resp, rows, trace>>

\* A for loop over the distinct ids only: an id met before is skipped.
GetRecordsForDedup ==
    /\ pc = "for"
    /\ IF ti < Len(ids)
       THEN /\ ti' = ti + 1
            /\ IF \E j \in 1..ti : ids[j] = ids[ti + 1]
               THEN UNCHANGED <<local_ctx, next_page_token, pc>>
               ELSE /\ local_ctx' = PyDict([k \in DOMAIN base_ctx.v \cup {"advertiser_id"} |->
                                              IF k = "advertiser_id" THEN PyStr(ids[ti + 1])
                                              ELSE base_ctx.v[k]])
                    /\ next_page_token' = PyNone
                    /\ pc' = "request"
       ELSE /\ pc' = "done"
            /\ UNCHANGED <<ti, local_ctx, next_page_token>>
    /\ UNCHANGED <<cls, config, context, server, call, base_ctx, ids, resp, rows,
                   trace, err>>

\* One turn of the for loop, client.py:33-36: the next id, a fresh local_ctx
\* and the start of the page loop, or the end of the generator.
GetRecordsFor ==
    /\ pc = "for"
    /\ IF ti < Len(ids)
       THEN /\ ti' = ti + 1
            /\ local_ctx' = LocalCtx(base_ctx, ids[ti + 1])
            /\ next_page_token' = PyNone
            /\ pc' = "request"
       ELSE /\ pc' = "done"
            /\ UNCHANGED <<ti, local_ctx, next_page_token>>
    /\ UNCHANGED <<cls, config, context, server, call, base_ctx, ids, resp, rows,
                   trace, err>>

\* The page a request asks for: its `page` parameter, page 1 without one.
PageAsked(params) == IF "page" \in DOMAIN params THEN params.page.v ELSE 1

\* What the API may answer to a request of the ti-th advertiser.
Answers(params, total) ==
    IF server.mode = "paged"
    THEN {PagedBody(params.advertiser_id, PageAsked(params), total)}
    ELSE Bodies(params.advertiser_id, PageAsked(params))

\* Page loop: prepare_request with get_url_params, send, receive the body.
\* A paged API fixes an advertiser's page count at the first request.
SendRequest ==
    /\ pc = "request"
    /\ server.mode = "any" => Cardinality({n \in 1..Len(trace) : trace[n].kind = "request"}) < MaxReq
    /\ LET out == GetUrlParams(config, local_ctx, next_page_token)
       IN  IF out.ok
           THEN \E total \in 0..MaxPage :
                  /\ server.mode = "any" => total = 0
                  /\ server.mode = "paged" /\ Len(server.total) >= ti
                        => total = server.total[ti]
                  /\ server' = (IF server.mode = "paged" /\ Len(server.total) < ti
                                THEN [server EXCEPT !.total = Append(@, total)]
                                ELSE server)
                  /\ \E body \in Answers(out.val, total) :
                        /\ resp' = body
                        /\ rows' = ExtractRecords(body)
                  /\ trace' = Append(trace, [kind |-> "request", i |-> ti,
                                             params |-> out.val])
                  /\ pc' = "yield"
                  /\ err' = err
           ELSE /\ Raise(out.err)
                /\ UNCHANGED <<server, resp, rows, trace>>
    /\ UNCHANGED <<cls, config, context, call, base_ctx, ids, ti, local_ctx,
                   next_page_token>>

\* Page loop: the next row of the response, post-processed, is yielded.
YieldRecord ==
    /\ pc = "yield"
    /\ rows # <<>>
    /\ LET out == PostProcess(cls, Head(rows))
       IN  IF out.ok
           THEN /\ trace' = Append(trace, [kind |-> "record", i |-> ti,
                                           record |-> out.val])
                /\ rows' = Tail(rows)
                /\ UNCHANGED <<pc, err>>
           ELSE /\ Raise(out.err)
                /\ UNCHANGED <<rows, trace>>
    /\ UNCHANGED <<cls, config, context, server, call, base_ctx, ids, ti,
                   local_ctx, next_page_token, resp>>

\* Page loop: the rows are out; get_next_page_token decides whether another
\* request follows. A token equal to the previous one ends the run in error.
\* The response is not read again.
Paginate ==
    /\ pc = "yield"
    /\ rows = <<>>
    /\ LET out == GetNextPageToken(cls, resp, next_page_token)
       IN  IF ~out.ok
           THEN /\ Raise(out.err)
                /\ UNCHANGED next_page_token
           ELSE IF Truthy(out.val) /\ out.val = next_page_token
           THEN /\ Raise("RuntimeError")
                /\ UNCHANGED next_page_token
           ELSE /\ next_page_token' = out.val
                /\ pc' = (IF Truthy(out.val) THEN "request" ELSE "for")
                /\ err' = err
    /\ resp' = PyNone
    /\ UNCHANGED <<cls, config, context, server, call, base_ctx, ids, ti,
                   local_ctx, rows, trace>>

\* ------------------------------------------------------------ specifications
\* get_records against an API that may answer anything.
Init == InitWith(Classes, NamingConfigs, {PyNone}, [mode |-> "any"])

Next ==
    \/ GetRecordsStart
    \/ GetRecordsFor
    \/ SendRequest
    \/ YieldRecord
    \/ Paginate

Spec == Init /\ [][Next]_vars

\* get_records, or one get_url_params call, against an API that pages as
\* documented.
InitPaged ==
    InitWith(Classes, RunConfigs, CallerContexts, [mode |-> "paged", total |-> <<>>])

NextPaged ==
    \/ Call_get_url_params
    \/ GetRecordsStart
    \/ GetRecordsFor
    \/ SendRequest
    \/ YieldRecord
    \/ Paginate

SpecPaged == InitPaged /\ [][NextPaged]_vars

\* get_records against an API that pages as documented, consumed to its
\* end: the consumer keeps resuming the generator.
InitFair ==
    InitWith(Classes, LoopConfigs, {PyNone}, [mode |-> "paged", total |-> <<>>])

NextFair ==
    \/ GetRecordsStart
    \/ GetRecordsFor
    \/ SendRequest
    \/ YieldRecord
    \/ Paginate

SpecFair == InitFair /\ [][NextFair]_vars /\ WF_vars(NextFair)

\* One call of the resolver, for every configuration.
InitConfig == InitWith({"TikTokStream"}, Configs, {PyNone}, [mode |-> "any"])

NextConfig == Call_configured_advertiser_ids

SpecConfig == InitConfig /\ [][NextConfig]_vars

\* One call of get_next_page_token or post_process.
InitPage == InitWith(Classes, {PlainConfig}, {PyNone}, [mode |-> "any"])

NextPage ==
    \/ Call_get_next_page_token
    \/ Call_post_process

SpecPage == InitPage /\ [][NextPage]_vars

\* ------------------------------------------------------------------ helpers
IsPrefix(s, t) == Len(s) <= Len(t) /\ s = SubSeq(t, 1, Len(s))

Max(a, b) == IF a > b THEN a ELSE b

RECURSIVE Concat(_)
Concat(ss) == IF ss = <<>> THEN <<>> ELSE Head(ss) \o Concat(Tail(ss))

RECURSIVE SumPages(_)
SumPages(totals) ==
    IF totals = <<>> THEN 0 ELSE Max(Head(totals), 1) + SumPages(Tail(totals))

Requests == SelectSeq(trace, LAMBDA e : e.kind = "request")

Records == SelectSeq(trace, LAMBDA e : e.kind = "record")

\* What an event of the trace shows: a request's advertiser and page, a
\* record's content.
EventLabel(e) ==
    IF e.kind = "request"
    THEN <<"request", e.i, e.params.advertiser_id, PageAsked(e.params)>>
    ELSE <<"record", e.i, e.record>>

\* The record a consumer is to see for the k-th row of an advertiser's page.
ExpectedRecord(adv, page, k) ==
    IF cls = "TikTokReportsStream"
    THEN PyDict([advertiser_id |-> PyStr(adv), page |-> PyInt(page), row |-> PyInt(k)])
    ELSE Row(adv, page, k)

\* Page p of the i-th advertiser: its request, then its rows.
ExpectedPage(i, p) ==
    <<<<"request", i, ids[i], p>>>>
    \o [k \in 1..RowsPerPage |-> <<"record", i, ExpectedRecord(ids[i], p, k)>>]

\* All pages of the i-th advertiser, ascending; an API that reports no page
\* is still asked once.
ExpectedTenant(i) ==
    Concat([p \in 1..Max(server.total[i], 1) |-> ExpectedPage(i, p)])

\* The advertisers the API has been asked about, in the order of `ids`.
ExpectedTrace == Concat([i \in 1..Len(server.total) |-> ExpectedTenant(i)])

TraceLabels == [n \in 1..Len(trace) |-> EventLabel(trace[n])]

\* C1: against an API that pages as documented, what get_records sends and
\* yields is, at every moment, a prefix of: for each advertiser in resolver
\* order, for each of its pages in ascending order, the request and then the
\* rows of that page; and it is all of it when the generator ends. No
\* advertiser is begun before the one before it is exhausted, and nothing is
\* dropped or deduplicated, also when `ids` names an advertiser twice.
C1_TenantsInOrder ==
    server.mode = "paged" =>
        /\ IsPrefix(TraceLabels, ExpectedTrace)
        /\ Len(server.total) <= Len(ids)
        /\ pc = "done" => TraceLabels = ExpectedTrace /\ Len(server.total) = Len(ids)

\* Two advertisers of 2 pages of 1 row each: 4 records, A-1, A-2, 7-1, 7-2.
C1_Witness ==
    /\ pc = "done"
    /\ ids = << <<"A">>, <<"7">> >>
    /\ server.total = <<2, 2>>
    /\ [n \in 1..Len(Records) |-> Records[n].record] =
          Concat([i \in 1..2 |->
             Concat([p \in 1..2 |->
                [k \in 1..RowsPerPage |-> ExpectedRecord(ids[i], p, k)]])])
    /\ Len(Requests) = 4

\* --------------------------------------------------------- resolver claims
ResolverCalled == call.fn = "_configured_advertiser_ids"

\* A configured value that names no advertiser: null, empty or whitespace.
IsBlankValue(x) == x \in {PyNone, PyStr(<<>>), PyStr(<<" ">>)}

\* The text of a configured value.
TextOf(x) ==
    CASE x = PyInt(7) -> <<"7">>
      [] x = PyInt(0) -> <<"0">>
      [] OTHER -> x.v

\* The texts of the values of a list that name an advertiser, in list order.
NamedIn(xs) ==
    LET kept == SelectSeq(xs, LAMBDA x : ~IsBlankValue(x))
    IN  [n \in 1..Len(kept) |-> TextOf(kept[n])]

IsNonEmptyList(x) == x.t = "list" /\ x.v # <<>>

\* C2: the resolver returns a list holding at least one non-blank identifier
\* or raises; it raises whenever neither `advertiser_ids` nor `advertiser_id`
\* yields a non-blank identifier, and it never returns the empty list.
C2_NeverEmpty ==
    ResolverCalled =>
        /\ call.out.ok => call.out.val # <<>>
        /\ (/\ ~(IsNonEmptyList(config.advertiser_ids)
                 /\ NamedIn(config.advertiser_ids.v) # <<>>)
            /\ IsBlankValue(config.advertiser_id))
           => ~call.out.ok

\* C3: for a non-empty `advertiser_ids` list the resolver returns the texts
\* of its non-null, non-blank elements in list order, whatever
\* `advertiser_id` is; otherwise, for a non-blank `advertiser_id`, the list
\* of its text alone; and the call leaves configuration and stream as found.
C3_ResolverResult ==
    /\ [](ResolverCalled =>
            IF IsNonEmptyList(config.advertiser_ids)
            THEN call.out.ok /\ call.out.val = NamedIn(config.advertiser_ids.v)
            ELSE ~IsBlankValue(config.advertiser_id)
                 => call.out.ok /\ call.out.val = <<TextOf(config.advertiser_id)>>)
    /\ [][call' # call => UNCHANGED <<cls, config, context, runVars>>]_vars

\* A list of a number and a text, beside a set `advertiser_id`.
C3_Witness ==
    /\ ResolverCalled
    /\ config.advertiser_ids = PyList(<<PyInt(7), PyStr(<<"A">>)>>)
    /\ config.advertiser_id = PyStr(<<"B">>)
    /\ call.out.ok
    /\ call.out.val = << <<"7">>, <<"A">> >>

\* ------------------------------------------------------- page token claims
TokenCalled == call.fn = "get_next_page_token"

HasPageInfo(json, field) ==
    /\ "data" \in DOMAIN json.v
    /\ "page_info" \in DOMAIN json.v["data"].v
    /\ field \in DOMAIN json.v["data"].v["page_info"].v

\* A page_info number of a body, 0 when the body does not hold it.
PageInfoOr0(json, field) ==
    IF HasPageInfo(json, field) THEN json.v["data"].v["page_info"].v[field].v ELSE 0

\* The continuation rule: page + 1 while page < total_page, else no token.
Continuation(page, total_page) ==
    IF page < total_page THEN PyInt(page + 1) ELSE PyNone

\* C4: the base class's get_next_page_token returns, for every body and
\* every previous token, the continuation of the body's page and total_page,
\* each taken as 0 when the body does not hold it.
C4_BaseToken ==
    TokenCalled /\ cls = "TikTokStream" =>
        /\ call.out.ok
        /\ call.out.val = Continuation(PageInfoOr0(call.json, "page"),
                                       PageInfoOr0(call.json, "total_page"))

\* {page: 1, total_page: 2} gives 2 with a previous token of 1.
C4_Witness ==
    /\ TokenCalled /\ cls = "TikTokStream"
    /\ PageInfoOr0(call.json, "page") = 1
    /\ PageInfoOr0(call.json, "total_page") = 2
    /\ call.prev = PyInt(1)
    /\ call.out.val = PyInt(2)

\* C7: the report class's get_next_page_token raises TypeError for a body
\* that lacks page or total_page, and applies the continuation rule to a
\* body that holds both.
C7_ReportToken ==
    TokenCalled /\ cls = "TikTokReportsStream" =>
        IF HasPageInfo(call.json, "page") /\ HasPageInfo(call.json, "total_page")
        THEN /\ call.out.ok
             /\ call.out.val = Continuation(PageInfoOr0(call.json, "page"),
                                            PageInfoOr0(call.json, "total_page"))
        ELSE ~call.out.ok /\ call.out.err = "TypeError"

\* A body with total_page and no page raises.
C7_Witness ==
    /\ TokenCalled /\ cls = "TikTokReportsStream"
    /\ HasPageInfo(call.json, "total_page")
    /\ ~HasPageInfo(call.json, "page")
    /\ ~call.out.ok

\* C8: post_process returns the mapping over the keys of the row's
\* dimensions and metrics, with the metrics value for a key of both, and
\* none of the row's other fields.
C8_PostProcess ==
    call.fn = "post_process" =>
        LET d == call.row.v["dimensions"].v
            m == call.row.v["metrics"].v
        IN  /\ call.out.ok
            /\ DOMAIN call.out.val.v = DOMAIN d \cup DOMAIN m
            /\ \A k \in DOMAIN m : call.out.val.v[k] = m[k]
            /\ \A k \in DOMAIN d \ DOMAIN m : call.out.val.v[k] = d[k]

\* A row whose dimensions and metrics disagree on `clicks`.
C8_Witness ==
    /\ call.fn = "post_process"
    /\ call.row.v["dimensions"].v = [date |-> PyInt(1), clicks |-> PyInt(1)]
    /\ call.row.v["metrics"].v = [clicks |-> PyInt(2)]
    /\ call.out.val = PyDict([date |-> PyInt(1), clicks |-> PyInt(2)])

\* ------------------------------------------------------------ request claims
\* The step that sends a request: the trace gains a request.
RequestSent ==
    /\ Len(trace') = Len(trace) + 1
    /\ trace'[Len(trace')].kind = "request"

SentParams == trace'[Len(trace')].params

\* The step that decides to go on: the page loop turns from a response that
\* has been read to the next request.
GoesOn == pc = "yield" /\ pc' = "request"

\* C5: the first request of an advertiser's page loop carries no `page`;
\* every later one carries the token, which the step that decided to go on
\* set to the page of the response it had read, plus one (a response without
\* a page counting as page 0); the token is absent whenever the for loop
\* takes the next advertiser.
C5_PageParam ==
    /\ [][RequestSent =>
            IF ReqCount(ti) = 0
            THEN "page" \notin DOMAIN SentParams /\ next_page_token = PyNone
            ELSE /\ "page" \in DOMAIN SentParams
                 /\ SentParams.page = next_page_token]_vars
    /\ [][GoesOn => next_page_token' = PyInt(PageInfoOr0(resp, "page") + 1)]_vars
    /\ [][next_page_token' # next_page_token => GoesOn \/ pc = "for" \/ pc' = "for"]_vars
    /\ [][ti' # ti => next_page_token' = PyNone]_vars

\* A second advertiser is asked for its first page, without `page`, after
\* the first advertiser was asked for page 2.
C5_Witness ==
    /\ Len(Requests) = 3
    /\ Requests[1].i = 1 /\ "page" \notin DOMAIN Requests[1].params
    /\ Requests[2].i = 1 /\ Requests[2].params.page = PyInt(2)
    /\ Requests[3].i = 2 /\ "page" \notin DOMAIN Requests[3].params

UrlParamsCalled == call.fn = "get_url_params"

\* A context that carries an advertiser_id: a mapping whose advertiser_id is
\* neither null, nor empty, nor zero.
CarriesAdvertiserId(ctx) ==
    /\ ctx.t = "dict"
    /\ "advertiser_id" \in DOMAIN ctx.v
    /\ ctx.v["advertiser_id"] \notin {PyNone, PyStr(<<>>), PyInt(0)}

\* C6: every request get_records sends for the i-th advertiser carries that
\* advertiser's id, whatever the caller's context holds; get_url_params
\* called with a context that carries an advertiser_id uses it, and uses the
\* first resolved identifier only for a context that carries none; and the
\* caller's context is never modified.
C6_AdvertiserParam ==
    /\ [](\A n \in 1..Len(Requests) :
            Requests[n].params.advertiser_id = ids[Requests[n].i])
    /\ [](UrlParamsCalled =>
            IF CarriesAdvertiserId(call.ctx)
            THEN /\ call.out.ok
                 /\ call.out.val.advertiser_id = TextOf(call.ctx.v["advertiser_id"])
            ELSE call.out.ok =>
                 /\ ConfiguredAdvertiserIds(config).ok
                 /\ call.out.val.advertiser_id = ConfiguredAdvertiserIds(config).val[1])
    /\ [][context' = context]_vars

\* Two pages of advertiser A are requested under a parent context that names
\* advertiser B.
C6_Witness ==
    /\ context = PyDict([advertiser_id |-> PyStr(<<"B">>)])
    /\ Len(Requests) = 2
    /\ Requests[2].params.advertiser_id = <<"A">>
    /\ "page" \in DOMAIN Requests[2].params

\* The JSON text of the filter the configuration asks for.
ExpectedFiltering ==
    IF config.include_deleted = PyBool(TRUE)
    THEN "{\"primary_status\": \"STATUS_ALL\"}"
    ELSE "{\"primary_status\": \"STATUS_NOT_DELETE\"}"

\* C9: every request of every advertiser and page, and every parameter
\* mapping get_url_params returns, has `filtering` equal to the JSON object
\* with primary_status STATUS_ALL when include_deleted is set and true and
\* STATUS_NOT_DELETE otherwise, and page_size 10.
C9_FilteringAndPageSize ==
    /\ \A n \in 1..Len(Requests) :
          /\ Requests[n].params.filtering = ExpectedFiltering
          /\ Requests[n].params.page_size = 10
    /\ UrlParamsCalled /\ call.out.ok =>
          /\ call.out.val.filtering = ExpectedFiltering
          /\ call.out.val.page_size = 10

\* Requests of two advertisers, one of them for page 2, with deleted
\* entities included.
C9_Witness ==
    /\ config.include_deleted = PyBool(TRUE)
    /\ Len(Requests) = 3
    /\ Requests[2].i = 1
    /\ Requests[2].params.page = PyInt(2)
    /\ Requests[3].i = 2
    /\ Requests[3].params.filtering = "{\"primary_status\": \"STATUS_ALL\"}"

\* C10: against an API that answers page p of an advertiser of N pages by
\* {page: p, total_page: N}, the page loop of each advertiser sends at most
\* max(N, 1) requests and exactly that many once it has ended; a request is
\* sent only when the response before it has been read to its end and its
\* continuation decided; and a get_records that has resolved its
\* advertisers ends, having sent the sum of those counts.
C10_Terminates ==
    /\ [](\A i \in 1..Len(server.total) :
            /\ ReqCount(i) <= Max(server.total[i], 1)
            /\ (i < ti \/ pc \in {"for", "done"})
                  => ReqCount(i) = Max(server.total[i], 1))
    /\ [](pc = "done" =>
            /\ Len(server.total) = Len(ids)
            /\ Len(Requests) = SumPages(server.total))
    /\ [][RequestSent => pc = "request" /\ rows = <<>>]_vars
    /\ (pc = "for" ~> pc = "done")

\* Advertisers of 2 pages and of none: 3 requests, and the generator ended.
C10_Witness ==
    /\ pc = "done"
    /\ server.total = <<2, 0>>
    /\ Len(Requests) = 3

====
